---- MODULE Spec2Model ----
(***************************************************************************)
(* Model of CapyBot.py: AutoReactBot, a Telegram bot that reacts to a      *)
(* configured list of stickers with an emoji and a canned reply.           *)
(*                                                                         *)
(* CapyBot.py constructs the client, registers one handler for stickers    *)
(* and parks in bot.polling(). How the client hands a received message to  *)
(* the handler is not in CapyBot.py; it is modelled here as the bot's      *)
(* specification describes it: one thread of control, which fetches        *)
(* messages, runs the handler on each in arrival order and to completion,  *)
(* and polls again (Dispatch). Everything else is the code of CapyBot.py.  *)
(* The handler's steps are its observable points: each log entry, the      *)
(* issue of an outbound call, and the call's return or exception.          *)
(*                                                                         *)
(* Strings that are not ASCII in the source are written as ASCII names:    *)
(* the thumbs-down emoji is "thumbs_down", the reply text is ReplyText.    *)
(***************************************************************************)
EXTENDS Integers, Sequences, FiniteSets

\* ---------------------------------------------------------------- bounds

\* Number of inbound messages the backend delivers in one run.
MaxMsgs == 2

\* ------------------------------------------------------------- constants

\* The text of the follow-up message ("Хейтер обнаружен! Атакую!").
ReplyText == "Hater detected! Attacking!"

\* The substrings _add_reaction looks for in str(e).
Substrings == {"Forbidden", "REACTION_INVALID", "message not found"}

\* ----------------------------------------------------------------- inputs

\* The arguments main() passes to AutoReactBot(...).
MainArgs ==
    [target_sticker_ids |-> <<"AgADZwADuRtZCw", "AgADLXUAAkw0aEk", "AgADtnYAAuLomUs">>,
     reaction_emoji |-> "thumbs_down"]

\* Arguments of AutoReactBot(...): main()'s, or another caller's list and emoji.
CtorArgs ==
    { MainArgs,
      [target_sticker_ids |-> <<"AgADothersticker">>, reaction_emoji |-> "fire"] }

\* What an inbound message carries besides its message id: the chat it was
\* posted in, its content type and, for a sticker, the sticker's
\* file_unique_id ("none": no sticker payload).
InboundKinds ==
    { [chat_id |-> 42, content_type |-> "text",    file_unique_id |-> "none"],
      [chat_id |-> 42, content_type |-> "sticker", file_unique_id |-> "AgADZwADuRtZCw"],
      [chat_id |-> 43, content_type |-> "sticker", file_unique_id |-> "AgADothersticker"],
      [chat_id |-> 43, content_type |-> "sticker", file_unique_id |-> "unknown123"] }

\* The backend numbers the messages it delivers; the n-th has this id.
MessageIdOf(n) == n + 6

\* An error raised by an outbound call (an exception deriving from
\* Exception): its class and the substrings of interest that str(e) contains.
ApiErrors ==
    [cls : {"ApiTelegramException"},
     text : {{}, {"Forbidden"}, {"REACTION_INVALID"}, {"message not found"},
             {"Forbidden", "REACTION_INVALID", "message not found"}}]
OtherErrors == [cls : {"Exception"}, text : {{"Forbidden"}}]
Errors == ApiErrors \cup OtherErrors

NoError == [cls |-> "none", text |-> {}]

\* What else can end an outbound call on the thread that runs the handler:
\* exceptions deriving from BaseException only.
Interrupts == [cls : {"KeyboardInterrupt", "SystemExit"}, text : {{}}]

\* Result of an outbound call: it returns, or raises.
Outcomes == {NoError} \cup Errors \cup Interrupts

\* The permission error of the backend.
PermissionError == [cls |-> "ApiTelegramException", text |-> {"Forbidden"}]

\* The result field of a call that has been issued and has not yet ended.
Pending == [cls |-> "pending", text |-> {}]

\* Exceptions bot.polling() can raise into start(), by class: "Exception"
\* stands for any class deriving from Exception; KeyboardInterrupt and
\* SystemExit derive from BaseException only.
PollExceptions == {"KeyboardInterrupt", "Exception", "SystemExit"}

\* Exceptions get_me() can raise into __init__, by class.
GetMeExceptions == {"Exception", "KeyboardInterrupt", "SystemExit"}

\* Whether a clause `except Exception` matches an exception of class e.
IsException(e) == e = "Exception"

\* The handler when it is not running. While it runs it holds the index of
\* its message (msg), its arguments (chat_id, message_id), the index in
\* calls of the call it is blocked in or has last made (call), and the
\* exception it is handling (exc).
Idle == [pc |-> "idle", msg |-> 0, chat_id |-> 0, message_id |-> 0,
         call |-> 0, exc |-> NoError]

VARIABLES
    ctor,               \* the arguments AutoReactBot(...) is called with
    pc,                 \* main(): new, get_me, ready, polling, stopped, crashed, aborted
                        \* (stopped: start() returned; crashed: start() raised;
                        \*  aborted: __init__ raised)
    target_sticker_ids, \* self.target_sticker_ids
    reaction_emoji,     \* self.reaction_emoji
    message_handlers,   \* content types with a registered handler
    received,           \* the inbound messages, in arrival order
    queue,              \* fetched messages the handler has yet to be run on:
                        \* indexes into received
    handler,            \* handle_sticker / _add_reaction: position and message
                        \* (idle, taken, react, reacting, reacted, send, sending, except)
    calls,              \* outbound calls in the order issued, each with its result
    log,                \* self.logger's entries, in order
    raised,             \* exception that left start() or __init__ ("none")
    escaped,            \* the calls (indexes in calls) whose exception has left
                        \* _add_reaction and handle_sticker
    bot_info,           \* get_me(): "none" not yet called, "known", "unknown" (it raised)
    polled              \* how bot.polling() ended: "none" (it has not), "returned",
                        \* or the exception it raised

vars == <<ctor, pc, target_sticker_ids, reaction_emoji, message_handlers,
          received, queue, handler, calls, log, raised, escaped, bot_info, polled>>

\* ---------------------------------------------------------------- helpers

Entry(level, event, msg) == [level |-> level, event |-> event, msg |-> msg]

\* `x in list` of Python, for a list modelled as a sequence.
InList(x, list) == \E i \in DOMAIN list : list[i] = x

Init ==
    /\ ctor \in CtorArgs
    /\ pc = "new"
    /\ target_sticker_ids = <<>>
    /\ reaction_emoji = "unset"
    /\ message_handlers = {}
    /\ received = <<>>
    /\ queue = <<>>
    /\ handler = Idle
    /\ calls = <<>>
    /\ log = <<>>
    /\ raised = "none"
    /\ escaped = {}
    /\ bot_info = "none"
    /\ polled = "none"

\* --------------------------------------------------------- pure functions

\* Mutant of IsTarget: the membership test is left out, any sticker counts.
IsTargetAnySticker(m, ids) == m.file_unique_id # "none"

\* handle_sticker's test: sticker.file_unique_id in self.target_sticker_ids.
IsTarget(m, ids) == InList(m.file_unique_id, ids)

\* The content_types=['sticker'] filter of the registered handler: the
\* library runs a handler only on messages of a registered content type.
Dispatched(m, handlers) == m.content_type \in handlers

\* Mutant of ReactionCall: chat id and message id passed in each other's place.
ReactionCallSwappedIds(chat_id, message_id, emoji, result) ==
    [api |-> "set_message_reaction", chat_id |-> message_id, message_id |-> chat_id,
     reaction |-> <<emoji>>, is_big |-> FALSE,
     text |-> "", reply_to_message_id |-> 0, result |-> result]

\* bot.set_message_reaction(chat_id=, message_id=, reaction=[reaction], is_big=False)
ReactionCall(chat_id, message_id, emoji, result) ==
    [api |-> "set_message_reaction", chat_id |-> chat_id, message_id |-> message_id,
     reaction |-> <<emoji>>, is_big |-> FALSE,
     text |-> "", reply_to_message_id |-> 0, result |-> result]

\* bot.send_message(chat_id, <text>, reply_to_message_id=message_id)
ReplyCall(chat_id, message_id, result) ==
    [api |-> "send_message", chat_id |-> chat_id, message_id |-> 0,
     reaction |-> <<>>, is_big |-> FALSE,
     text |-> ReplyText, reply_to_message_id |-> message_id, result |-> result]

\* Mutant of Classify: independent ifs instead of an if/elif chain, so every
\* matching substring writes its own entry.
ClassifyEveryMatch(e, msg) ==
    IF e.cls = "ApiTelegramException"
    THEN (IF "Forbidden" \in e.text
          THEN <<Entry("warning", "permission_denied", msg)>> ELSE <<>>)
         \o (IF "REACTION_INVALID" \in e.text
             THEN <<Entry("warning", "reaction_unsupported", msg)>> ELSE <<>>)
         \o (IF "message not found" \in e.text
             THEN <<Entry("warning", "message_gone", msg)>> ELSE <<>>)
         \o (IF e.text = {}
             THEN <<Entry("error", "api_failure", msg)>> ELSE <<>>)
    ELSE <<Entry("error", "unexpected", msg)>>

\* The except clauses of _add_reaction: the log entries written for an
\* exception e raised while handling message msg.
Classify(e, msg) ==
    IF e.cls = "ApiTelegramException"
    THEN IF "Forbidden" \in e.text
         THEN <<Entry("warning", "permission_denied", msg)>>
         ELSE IF "REACTION_INVALID" \in e.text
         THEN <<Entry("warning", "reaction_unsupported", msg)>>
         ELSE IF "message not found" \in e.text
         THEN <<Entry("warning", "message_gone", msg)>>
         ELSE <<Entry("error", "api_failure", msg)>>
    ELSE <<Entry("error", "unexpected", msg)>>

\* Mutant of Caught: the second except clause is missing.
CaughtApiOnly(e) == e.cls = "ApiTelegramException"

\* Whether _add_reaction's except clauses catch e: ApiTelegramException by
\* the first clause, every other Exception by the second; KeyboardInterrupt
\* and SystemExit by neither.
Caught(e) == e.cls \in {"ApiTelegramException", "Exception"}

\* Mutant of AfterException: after a failed set-reaction the handler logs
\* and carries on with the reply instead of returning.
AfterExceptionFallsThrough(e) ==
    /\ handler' = IF calls[handler.call].api = "set_message_reaction"
                  THEN [handler EXCEPT !.pc = "send", !.exc = NoError]
                  ELSE Idle
    /\ UNCHANGED <<target_sticker_ids, reaction_emoji>>
    /\ IF Caught(e)
       THEN /\ log' = log \o Classify(e, handler.message_id)
            /\ UNCHANGED escaped
       ELSE /\ escaped' = escaped \cup {handler.call}
            /\ UNCHANGED log

\* Mutant of AfterException: an unsupported emoji is replaced by a default
\* one for the messages to come.
AfterExceptionResetsEmoji(e) ==
    /\ handler' = Idle
    /\ reaction_emoji' = IF "REACTION_INVALID" \in e.text
                         THEN "thumbs_up" ELSE reaction_emoji
    /\ UNCHANGED target_sticker_ids
    /\ IF Caught(e)
       THEN /\ log' = log \o Classify(e, handler.message_id)
            /\ UNCHANGED escaped
       ELSE /\ escaped' = escaped \cup {handler.call}
            /\ UNCHANGED log

\* Mutant of AfterException: a failed reply after a successful reaction is
\* logged as a failure class of its own.
AfterExceptionPartial(e) ==
    /\ handler' = Idle
    /\ UNCHANGED <<target_sticker_ids, reaction_emoji>>
    /\ IF Caught(e)
       THEN /\ log' = IF calls[handler.call].api = "send_message"
                      THEN Append(log, Entry("error", "partial_failure",
                                             handler.message_id))
                      ELSE log \o Classify(e, handler.message_id)
            /\ UNCHANGED escaped
       ELSE /\ escaped' = escaped \cup {handler.call}
            /\ UNCHANGED log

\* The except clauses of _add_reaction for exception e: a caught one is
\* logged and swallowed and the handler returns; one that matches neither
\* clause leaves _add_reaction and handle_sticker with nothing logged. What
\* bot.polling() then does with it is PollRaises (it passes it on to
\* start()) or any other step of the loop (it does not).
AfterException(e) ==
    /\ handler' = Idle
    /\ UNCHANGED <<target_sticker_ids, reaction_emoji>>
    /\ IF Caught(e)
       THEN /\ log' = log \o Classify(e, handler.message_id)
            /\ UNCHANGED escaped
       ELSE /\ escaped' = escaped \cup {handler.call}
            /\ UNCHANGED log

\* Mutant of StartExcept: the error is logged but not re-raised.
StartExceptNoReraise(e) ==
    IF e = "KeyboardInterrupt"
    THEN [pc |-> "stopped", raised |-> "none",
          entries |-> <<Entry("info", "stopped_by_user", 0)>>]
    ELSE [pc |-> "stopped", raised |-> "none",
          entries |-> <<Entry("error", "bot_error", 0)>>]

\* start()'s except clauses for an exception e out of bot.polling(): the
\* interrupt is logged and start() returns, an Exception is logged and
\* re-raised, anything else matches no clause and propagates unlogged.
StartExcept(e) ==
    IF e = "KeyboardInterrupt"
    THEN [pc |-> "stopped", raised |-> "none",
          entries |-> <<Entry("info", "stopped_by_user", 0)>>]
    ELSE IF IsException(e)
    THEN [pc |-> "crashed", raised |-> e,
          entries |-> <<Entry("error", "bot_error", 0)>>]
    ELSE [pc |-> "crashed", raised |-> e, entries |-> <<>>]

\* Mutant of GetMeExcept: the failure is logged and re-raised out of __init__.
GetMeExceptAborts(e) ==
    [pc |-> "aborted", raised |-> e,
     entries |-> <<Entry("error", "get_me_failed", 0)>>]

\* __init__'s except clause for an exception e out of get_me(): an
\* Exception is logged and construction carries on; anything else does not
\* match the clause and leaves __init__ unlogged, so main() gets no bot.
GetMeExcept(e) ==
    IF IsException(e)
    THEN [pc |-> "ready", raised |-> "none",
          entries |-> <<Entry("error", "get_me_failed", 0)>>]
    ELSE [pc |-> "aborted", raised |-> e, entries |-> <<>>]

\* ---------------------------------------------------------------- actions

\* __init__, lines 20-32: store the configuration, register the handler.
Construct ==
    /\ pc = "new"
    /\ target_sticker_ids' = ctor.target_sticker_ids
    /\ reaction_emoji' = ctor.reaction_emoji
    /\ message_handlers' = message_handlers \cup {"sticker"}
    /\ pc' = "get_me"
    /\ UNCHANGED <<ctor, received, queue, handler, calls, log, raised, escaped,
                   bot_info, polled>>

\* __init__, lines 35-39: get_me() returns.
GetMeOk ==
    /\ pc = "get_me"
    /\ log' = log \o <<Entry("info", "bot_started", 0),
                       Entry("info", "watching", 0),
                       Entry("info", "will_react", 0)>>
    /\ pc' = "ready"
    /\ bot_info' = "known"
    /\ UNCHANGED <<ctor, target_sticker_ids, reaction_emoji, message_handlers,
                   received, queue, handler, calls, raised, escaped, polled>>

\* __init__, lines 35-41: get_me() raises.
GetMeFails ==
    /\ pc = "get_me"
    /\ \E e \in GetMeExceptions :
         /\ log' = log \o GetMeExcept(e).entries
         /\ pc' = GetMeExcept(e).pc
         /\ raised' = GetMeExcept(e).raised
    /\ bot_info' = "unknown"
    /\ UNCHANGED <<ctor, target_sticker_ids, reaction_emoji, message_handlers,
                   received, queue, handler, calls, escaped, polled>>

\* start(), lines 87-91: two info entries, then the polling call.
Start ==
    /\ pc = "ready"
    /\ log' = log \o <<Entry("info", "running", 0), Entry("info", "add_me", 0)>>
    /\ pc' = "polling"
    /\ UNCHANGED <<ctor, target_sticker_ids, reaction_emoji, message_handlers,
                   received, queue, handler, calls, raised, escaped, bot_info, polled>>

\* bot.polling() fetches one more message; it is kept for the handler if a
\* handler is registered for its content type. The loop fetches only while
\* no handler runs.
Receive ==
    /\ pc = "polling"
    /\ handler.pc = "idle"
    /\ Len(received) < MaxMsgs
    /\ \E k \in InboundKinds :
         LET n == Len(received) + 1
             m == [content_type |-> k.content_type,
                   file_unique_id |-> k.file_unique_id,
                   chat_id |-> k.chat_id, message_id |-> MessageIdOf(n)]
         IN /\ received' = Append(received, m)
            /\ queue' = IF Dispatched(m, message_handlers)
                        THEN Append(queue, n) ELSE queue
    /\ UNCHANGED <<ctor, pc, target_sticker_ids, reaction_emoji, message_handlers,
                   handler, calls, log, raised, escaped, bot_info, polled>>

\* bot.polling() raises into start(): an exception of its own or one that
\* left the handler, in either case when the handler run has ended.
PollRaises ==
    /\ pc = "polling"
    /\ handler.pc = "idle"
    /\ \E e \in PollExceptions :
         /\ pc' = StartExcept(e).pc
         /\ raised' = StartExcept(e).raised
         /\ log' = log \o StartExcept(e).entries
         /\ polled' = e
    /\ UNCHANGED <<ctor, target_sticker_ids, reaction_emoji, message_handlers,
                   received, queue, handler, calls, escaped, bot_info>>

\* bot.polling() returns: start() falls out of the try and returns, with
\* no log entry.
PollReturns ==
    /\ pc = "polling"
    /\ handler.pc = "idle"
    /\ pc' = "stopped"
    /\ polled' = "returned"
    /\ UNCHANGED <<ctor, target_sticker_ids, reaction_emoji, message_handlers,
                   received, queue, handler, calls, log, raised, escaped, bot_info>>

\* The receive loop runs the registered handler on the next fetched message,
\* once the handler run before it has returned.
Dispatch ==
    /\ pc = "polling"
    /\ handler.pc = "idle"
    /\ queue # <<>>
    /\ handler' = [Idle EXCEPT !.pc = "taken", !.msg = Head(queue)]
    /\ queue' = Tail(queue)
    /\ UNCHANGED <<ctor, pc, target_sticker_ids, reaction_emoji, message_handlers,
                   received, calls, log, raised, escaped, bot_info, polled>>

\* handle_sticker, lines 49-53: the membership test, the info entry and the
\* call of _add_reaction(message.chat.id, message.message_id).
HandleSticker ==
    /\ handler.pc = "taken"
    /\ LET m == received[handler.msg]
       IN IF IsTarget(m, target_sticker_ids)
          THEN /\ log' = Append(log, Entry("info", "target_detected", m.message_id))
               /\ handler' = [handler EXCEPT !.pc = "react", !.chat_id = m.chat_id,
                                             !.message_id = m.message_id]
          ELSE /\ handler' = Idle
               /\ UNCHANGED log
    /\ UNCHANGED <<ctor, pc, target_sticker_ids, reaction_emoji, message_handlers,
                   received, queue, calls, raised, escaped, bot_info, polled>>

\* _add_reaction, lines 58-65: set_message_reaction is called; the handler
\* blocks in it.
SetMessageReaction ==
    /\ handler.pc = "react"
    /\ calls' = Append(calls, ReactionCall(handler.chat_id, handler.message_id,
                                           reaction_emoji, Pending))
    /\ handler' = [handler EXCEPT !.pc = "reacting", !.call = Len(calls) + 1]
    /\ UNCHANGED <<ctor, pc, target_sticker_ids, reaction_emoji, message_handlers,
                   received, queue, log, raised, escaped, bot_info, polled>>

\* What the blocked handler does when its call ends with result r: it goes
\* on to the statement after the call (next), or to the except clauses.
CallEnds(r, next) ==
    /\ calls' = [calls EXCEPT ![handler.call].result = r]
    /\ handler' = IF r = NoError THEN next
                  ELSE [handler EXCEPT !.pc = "except", !.exc = r]

\* set_message_reaction returns or raises.
ReactionReturns ==
    /\ handler.pc = "reacting"
    /\ \E r \in Outcomes : CallEnds(r, [handler EXCEPT !.pc = "reacted"])
    /\ UNCHANGED <<ctor, pc, target_sticker_ids, reaction_emoji, message_handlers,
                   received, queue, log, raised, escaped, bot_info, polled>>

\* _add_reaction, line 67: the info entry after the reaction call.
LogReactionAdded ==
    /\ handler.pc = "reacted"
    /\ log' = Append(log, Entry("info", "reaction_added", handler.message_id))
    /\ handler' = [handler EXCEPT !.pc = "send"]
    /\ UNCHANGED <<ctor, pc, target_sticker_ids, reaction_emoji, message_handlers,
                   received, queue, calls, raised, escaped, bot_info, polled>>

\* Mutant of SendMessage: the reply is sent without waiting for its result
\* (handed to a background task) and the handler returns at once.
SendMessageDetached ==
    /\ handler.pc = "send"
    /\ calls' = Append(calls, ReplyCall(handler.chat_id, handler.message_id,
                                        Pending))
    /\ handler' = Idle
    /\ UNCHANGED <<ctor, pc, target_sticker_ids, reaction_emoji, message_handlers,
                   received, queue, log, raised, escaped, bot_info, polled>>

\* _add_reaction, line 70: send_message is called; the handler blocks in it.
SendMessage ==
    /\ handler.pc = "send"
    /\ calls' = Append(calls, ReplyCall(handler.chat_id, handler.message_id,
                                        Pending))
    /\ handler' = [handler EXCEPT !.pc = "sending", !.call = Len(calls) + 1]
    /\ UNCHANGED <<ctor, pc, target_sticker_ids, reaction_emoji, message_handlers,
                   received, queue, log, raised, escaped, bot_info, polled>>

\* send_message returns (the handler returns) or raises.
SendReturns ==
    /\ handler.pc = "sending"
    /\ \E r \in Outcomes : CallEnds(r, Idle)
    /\ UNCHANGED <<ctor, pc, target_sticker_ids, reaction_emoji, message_handlers,
                   received, queue, log, raised, escaped, bot_info, polled>>

\* _add_reaction, lines 72-83: the except clauses, then the handler returns.
HandleException ==
    /\ handler.pc = "except"
    /\ AfterException(handler.exc)
    /\ UNCHANGED <<ctor, pc, message_handlers, received, queue, calls, raised,
                   bot_info, polled>>

Next ==
    \/ Construct
    \/ GetMeOk
    \/ GetMeFails
    \/ Start
    \/ Receive
    \/ PollRaises
    \/ PollReturns
    \/ Dispatch
    \/ HandleSticker
    \/ SetMessageReaction
    \/ ReactionReturns
    \/ LogReactionAdded
    \/ SendMessage
    \/ SendReturns
    \/ HandleException

\* The whole life of the bot, for any constructor arguments, inbound
\* messages and outcomes of the calls.
Spec == Init /\ [][Next]_vars

\* ------------------------------------------------------- claim vocabulary

\* The message an outbound call refers to.
CallMsg(c) == IF c.api = "send_message" THEN c.reply_to_message_id ELSE c.message_id

ReactionCallsFor(id) ==
    {i \in DOMAIN calls : calls[i].api = "set_message_reaction" /\ calls[i].message_id = id}

ReplyCallsFor(id) ==
    {i \in DOMAIN calls : calls[i].api = "send_message" /\ calls[i].reply_to_message_id = id}

CallsFor(id) == {i \in DOMAIN calls : CallMsg(calls[i]) = id}

\* Warning and error entries written while handling message id.
FailureEntriesFor(id) ==
    {i \in DOMAIN log : log[i].msg = id /\ log[i].level \in {"warning", "error"}}

EntriesOf(event) == {i \in DOMAIN log : log[i].event = event}

InQueue(n) == \E i \in DOMAIN queue : queue[i] = n

InProgress(n) == handler.msg = n

\* Message n has been received and its handling has ended (for a message
\* no handler is registered for: it was received).
Handled(n) == n \in DOMAIN received /\ ~InQueue(n) /\ ~InProgress(n)

\* The handling of the message with this id has ended.
HandledId(id) == \E n \in DOMAIN received : received[n].message_id = id /\ Handled(n)

\* A sticker whose unique id is in the configured target set.
Matching(m) ==
    /\ m.content_type = "sticker"
    /\ \E i \in DOMAIN ctor.target_sticker_ids :
         ctor.target_sticker_ids[i] = m.file_unique_id

\* The call failed (raised an error) / was ended by an exception that is
\* not an error / returned / has not ended.
Failed(c) == c.result \in Errors

Interrupted(c) == c.result \in Interrupts

Returned(c) == c.result = NoError

InFlight(c) == c.result = Pending

\* The named failure causes and the substring that identifies each.
CauseOf(sub) ==
    CASE sub = "Forbidden"         -> "permission_denied"
      [] sub = "REACTION_INVALID"  -> "reaction_unsupported"
      [] sub = "message not found" -> "message_gone"

\* A backend error with at least one named cause.
Named(e) == e.cls = "ApiTelegramException" /\ e.text # {}

\* Entry x is a correct classification of exception e.
ClassifiedAs(e, x) ==
    IF Named(e)
    THEN x.level = "warning" /\ \E sub \in e.text : x.event = CauseOf(sub)
    ELSE x.level = "error" /\ x.event \in {"api_failure", "unexpected"}

\* ----------------------------------------------------------------- claims

\* C1: a message that is not a sticker, or a sticker whose file_unique_id is
\* not in the target set, causes no outbound call: every call issued refers
\* to a received target sticker, whatever was handled before.
C1_NoCallWithoutTarget ==
    /\ \A n \in DOMAIN received :
         ~Matching(received[n]) => CallsFor(received[n].message_id) = {}
    /\ \A i \in DOMAIN calls :
         \E n \in DOMAIN received :
            Matching(received[n]) /\ received[n].message_id = CallMsg(calls[i])

\* C1 witness: after a target sticker was reacted to, a sticker that is not
\* in the target set was handled and has no call of its own.
C1_Witness ==
    /\ Len(received) = 2
    /\ Matching(received[1]) /\ ReactionCallsFor(received[1].message_id) # {}
    /\ received[2].content_type = "sticker" /\ ~Matching(received[2])
    /\ Handled(1) /\ Handled(2)
    /\ CallsFor(received[2].message_id) = {}

\* C2: a target sticker has at most one set-reaction call, carrying its chat
\* id, its message id, the configured emoji and is_big = False, and at most
\* one send-message call, issued after it, to the same chat, with the fixed
\* text, replying to the same message. Once it is handled it has exactly one
\* set-reaction call and, if that call returned, exactly one send-message call.
C2_OneReactionThenOneReply ==
    \A n \in DOMAIN received :
      LET m == received[n]
          R == ReactionCallsFor(m.message_id)
          S == ReplyCallsFor(m.message_id)
      IN Matching(m) =>
           /\ Cardinality(R) <= 1 /\ Cardinality(S) <= 1
           /\ \A i \in R :
                /\ calls[i].chat_id = m.chat_id
                /\ calls[i].reaction = <<ctor.reaction_emoji>>
                /\ calls[i].is_big = FALSE
           /\ \A j \in S :
                /\ calls[j].chat_id = m.chat_id
                /\ calls[j].text = ReplyText
                /\ \A i \in R : i < j
           /\ Handled(n) =>
                /\ Cardinality(R) = 1
                /\ \A i \in R : Returned(calls[i]) => Cardinality(S) = 1

\* C2 witness: the sticker "AgADZwADuRtZCw" in chat 42, message 7, got one
\* thumbs-down reaction followed by one reply.
C2_Witness ==
    /\ Len(calls) = 2
    /\ received[1].file_unique_id = "AgADZwADuRtZCw" /\ Handled(1)
    /\ calls[1].api = "set_message_reaction" /\ calls[1].chat_id = 42
    /\ calls[1].message_id = 7 /\ calls[1].reaction = <<"thumbs_down">>
    /\ calls[2].api = "send_message" /\ calls[2].chat_id = 42
    /\ calls[2].reply_to_message_id = 7 /\ Returned(calls[2])

\* A send-message call is issued only after the set-reaction call for the
\* same chat and message has returned without raising.
ReplyNeedsReaction ==
    \A j \in DOMAIN calls :
      calls[j].api = "send_message" =>
        \E i \in 1 .. (j - 1) :
           /\ calls[i].api = "set_message_reaction"
           /\ calls[i].message_id = calls[j].reply_to_message_id
           /\ calls[i].chat_id = calls[j].chat_id
           /\ Returned(calls[i])

\* C3 as stated: the reply needs a returned reaction, and whenever
\* set-reaction raises, no send-message call follows for that message and
\* one warning-level entry is logged for it.
C3_OneWarningEntry ==
    /\ ReplyNeedsReaction
    /\ \A i \in DOMAIN calls :
         (calls[i].api = "set_message_reaction" /\ Failed(calls[i])) =>
           /\ ReplyCallsFor(calls[i].message_id) = {}
           /\ HandledId(calls[i].message_id) =>
                /\ Cardinality(FailureEntriesFor(calls[i].message_id)) = 1
                /\ \A x \in FailureEntriesFor(calls[i].message_id) :
                     log[x].level = "warning"

\* C3 amended: the reply needs a returned reaction; when set-reaction has
\* raised, no send-message call exists for that message. When it raised an
\* error, exactly one failure entry is logged for the message once the
\* handler has ended: at warning level when the error is a backend error
\* with a named cause (a permission error is one), at error level for every
\* other error. When it raised KeyboardInterrupt or SystemExit, no failure
\* entry is logged for the message.
C3_ReplyOnlyAfterReaction ==
    /\ ReplyNeedsReaction
    /\ \A i \in DOMAIN calls :
         (calls[i].api = "set_message_reaction" /\ Failed(calls[i])) =>
           LET F == FailureEntriesFor(calls[i].message_id)
           IN /\ ReplyCallsFor(calls[i].message_id) = {}
              /\ Cardinality(F) <= 1
              /\ HandledId(calls[i].message_id) => Cardinality(F) = 1
              /\ \A x \in F :
                   log[x].level = IF Named(calls[i].result)
                                  THEN "warning" ELSE "error"
    /\ \A i \in DOMAIN calls :
         (calls[i].api = "set_message_reaction" /\ Interrupted(calls[i])) =>
           /\ ReplyCallsFor(calls[i].message_id) = {}
           /\ FailureEntriesFor(calls[i].message_id) = {}

\* C3 witness: set-reaction raised a permission error for one message and
\* an error without a named cause for another; both handlers have ended,
\* with a warning for the first and an error entry for the second.
C3_Witness ==
    \E i, k \in DOMAIN calls :
      /\ calls[i].api = "set_message_reaction"
      /\ calls[i].result = PermissionError
      /\ HandledId(calls[i].message_id)
      /\ \E x \in FailureEntriesFor(calls[i].message_id) : log[x].level = "warning"
      /\ calls[k].api = "set_message_reaction"
      /\ Failed(calls[k]) /\ ~Named(calls[k].result)
      /\ HandledId(calls[k].message_id)
      /\ \E x \in FailureEntriesFor(calls[k].message_id) : log[x].level = "error"

\* C4: a failed outbound call (one that raised an error) is swallowed in
\* _add_reaction: neither call is repeated for a message, the exception of
\* no failed call leaves the handler, and a target sticker handled after a
\* failure still has its own set-reaction call.
C4_FailureSwallowed ==
    /\ \A i \in DOMAIN calls : Failed(calls[i]) => i \notin escaped
    /\ \A n \in DOMAIN received :
         /\ Cardinality(ReactionCallsFor(received[n].message_id)) <= 1
         /\ Cardinality(ReplyCallsFor(received[n].message_id)) <= 1
    /\ \A n \in DOMAIN received :
         (Matching(received[n]) /\ Handled(n)
            /\ \E i \in DOMAIN calls : Failed(calls[i])) =>
           Cardinality(ReactionCallsFor(received[n].message_id)) = 1

\* The place of the message with this id in the order of arrival.
ArrivalOf(id) == CHOOSE n \in DOMAIN received : received[n].message_id = id

\* C4 witness: a call for the first message raised an exception that is not
\* an ApiTelegramException, and the second message, handled afterwards, got
\* its own set-reaction call later in the call sequence.
C4_Witness ==
    /\ Len(received) = 2 /\ Handled(1) /\ Handled(2)
    /\ \E i, j \in DOMAIN calls :
         /\ i < j
         /\ CallMsg(calls[i]) = received[1].message_id
         /\ calls[i].result.cls = "Exception"
         /\ calls[j].api = "set_message_reaction"
         /\ calls[j].message_id = received[2].message_id

\* C5: a failed call produces exactly one warning-or-error entry for its
\* message (none before the except clause has run, one afterwards): at
\* warning level naming one of the causes whose substring is in the error
\* text when the backend error has a named cause, at error level in an
\* unclassified category otherwise -- also when several substrings match.
C5_OneClassification ==
    \A i \in DOMAIN calls :
      Failed(calls[i]) =>
        LET F == FailureEntriesFor(CallMsg(calls[i]))
        IN /\ Cardinality(F) <= 1
           /\ HandledId(CallMsg(calls[i])) => Cardinality(F) = 1
           /\ \A x \in F : ClassifiedAs(calls[i].result, log[x])

\* C5 witness: an error text matching all three substrings was logged once.
C5_Witness ==
    \E i \in DOMAIN calls :
      /\ calls[i].result.text = Substrings
      /\ HandledId(CallMsg(calls[i]))
      /\ Cardinality(FailureEntriesFor(CallMsg(calls[i]))) = 1

\* C6 as stated: start() ends in one of two ways only: when the poll call
\* raises KeyboardInterrupt, one info entry and a normal return; when it
\* raises any other exception, one error entry and the exception propagates.
C6_TwoWaysOut ==
    /\ pc \in {"stopped", "crashed"} => polled \notin {"none", "returned"}
    /\ polled = "KeyboardInterrupt" =>
         /\ pc = "stopped" /\ raised = "none"
         /\ Cardinality(EntriesOf("stopped_by_user")) = 1
         /\ EntriesOf("bot_error") = {}
    /\ polled \notin {"none", "returned", "KeyboardInterrupt"} =>
         /\ pc = "crashed" /\ raised = polled
         /\ Cardinality(EntriesOf("bot_error")) = 1
         /\ EntriesOf("stopped_by_user") = {}

\* C6 amended: start() ends in one of four ways, decided by the cause:
\* KeyboardInterrupt out of the poll call gives one info entry and a normal
\* return; an exception deriving from Exception gives one error entry and
\* propagates; any other exception (SystemExit) propagates with no entry;
\* and when the poll call returns, start() returns normally with no entry.
C6_StartEndsByCause ==
    /\ pc \in {"stopped", "crashed"} <=> polled # "none"
    /\ polled = "KeyboardInterrupt" =>
         /\ pc = "stopped" /\ raised = "none"
         /\ Cardinality(EntriesOf("stopped_by_user")) = 1
         /\ \A i \in EntriesOf("stopped_by_user") : log[i].level = "info"
         /\ EntriesOf("bot_error") = {}
    /\ polled = "Exception" =>
         /\ pc = "crashed" /\ raised = polled
         /\ Cardinality(EntriesOf("bot_error")) = 1
         /\ \A i \in EntriesOf("bot_error") : log[i].level = "error"
         /\ EntriesOf("stopped_by_user") = {}
    /\ polled = "SystemExit" =>
         /\ pc = "crashed" /\ raised = polled
         /\ EntriesOf("bot_error") = {} /\ EntriesOf("stopped_by_user") = {}
    /\ polled = "returned" =>
         /\ pc = "stopped" /\ raised = "none"
         /\ EntriesOf("bot_error") = {} /\ EntriesOf("stopped_by_user") = {}

\* C6 witness: a target sticker was reacted to, then the poll call raised
\* an exception: the error entry follows and start() has raised.
C6_Witness ==
    /\ polled = "Exception" /\ pc = "crashed" /\ raised = "Exception"
    /\ \E i, j \in DOMAIN log :
         i < j /\ log[i].event = "reaction_added" /\ log[j].event = "bot_error"

C8_AnyExceptionTolerated ==
    bot_info = "unknown" =>
      /\ pc \in {"ready", "polling", "stopped", "crashed"}
      /\ (pc = "ready" => raised = "none")
      /\ Cardinality(EntriesOf("get_me_failed")) = 1
      /\ "sticker" \in message_handlers

\* C8 amended: when get_me() raises an exception deriving from Exception,
\* one error entry is logged, construction completes with the sticker
\* handler registered, and the bot then handles target stickers as usual:
\* each handled one has its set-reaction call. Construction is aborted only
\* by an exception that does not derive from Exception: it leaves __init__
\* with nothing logged, the handler registered, and nothing ever received.
C8_GetMeFailureTolerated ==
    /\ pc = "aborted" =>
         /\ bot_info = "unknown"
         /\ raised \in GetMeExceptions /\ ~IsException(raised)
         /\ log = <<>>
         /\ "sticker" \in message_handlers
         /\ received = <<>> /\ calls = <<>>
    /\ (bot_info = "unknown" /\ pc # "aborted") =>
         /\ pc \in {"ready", "polling", "stopped", "crashed"}
         /\ (pc = "ready" => raised = "none")
         /\ Cardinality(EntriesOf("get_me_failed")) = 1
         /\ \A i \in EntriesOf("get_me_failed") : log[i].level = "error"
         /\ "sticker" \in message_handlers
         /\ \A n \in DOMAIN received :
              (Matching(received[n]) /\ Handled(n)) =>
                Cardinality(ReactionCallsFor(received[n].message_id)) = 1

\* C8 witness: get_me() raised, and later a target sticker got its reaction
\* and its reply.
C8_Witness ==
    /\ bot_info = "unknown"
    /\ \E i, j \in DOMAIN calls :
         /\ calls[i].api = "set_message_reaction" /\ Returned(calls[i])
         /\ calls[j].api = "send_message" /\ Returned(calls[j])

\* C9: once constructed, the target sticker list and the reaction emoji
\* equal the constructor's arguments in every state.
C9_ConfigImmutable ==
    pc # "new" =>
      /\ target_sticker_ids = ctor.target_sticker_ids
      /\ reaction_emoji = ctor.reaction_emoji

\* C9 witness: the configuration after a failed reaction, a failed reply and
\* a message that did not match, all handled.
C9_Witness ==
    /\ pc # "new"
    /\ \A n \in DOMAIN received : Handled(n)
    /\ \E i, j \in DOMAIN calls :
         /\ calls[i].api = "set_message_reaction" /\ Failed(calls[i])
         /\ calls[j].api = "send_message" /\ Failed(calls[j])

\* C10: when set-reaction succeeded and send-message failed, the message
\* still has exactly one set-reaction call and no call after the failed
\* reply, the failure has one warning-or-error entry once the handler has
\* ended, classified as a set-reaction failure with the same error is
\* classified, and the exception does not leave the handler.
C10_ReplyFailureAfterReaction ==
    \A j \in DOMAIN calls :
      (calls[j].api = "send_message" /\ Failed(calls[j])) =>
        LET id == calls[j].reply_to_message_id
        IN /\ Cardinality(ReactionCallsFor(id)) = 1
           /\ \A k \in CallsFor(id) : k <= j
           /\ Cardinality(FailureEntriesFor(id)) <= 1
           /\ HandledId(id) => Cardinality(FailureEntriesFor(id)) = 1
           /\ \A x \in FailureEntriesFor(id) :
                /\ ClassifiedAs(calls[j].result, log[x])
                /\ \A i \in DOMAIN calls :
                     (calls[i].api = "set_message_reaction"
                        /\ calls[i].result = calls[j].result) =>
                       \A y \in FailureEntriesFor(calls[i].message_id) :
                          /\ log[y].level = log[x].level
                          /\ log[y].event = log[x].event
           /\ j \notin escaped

\* C10 witness: a reply failed after its reaction succeeded, a reaction for
\* another message failed with the same error, and both handlers have ended.
C10_Witness ==
    \E i, j, k \in DOMAIN calls :
      /\ calls[i].api = "set_message_reaction" /\ Returned(calls[i])
      /\ calls[j].api = "send_message" /\ Failed(calls[j])
      /\ calls[j].reply_to_message_id = calls[i].message_id
      /\ calls[k].api = "set_message_reaction"
      /\ calls[k].result = calls[j].result
      /\ HandledId(calls[j].reply_to_message_id)
      /\ HandledId(calls[k].message_id)

====
